---------------------------- MODULE Spec2Model ----------------------------
(***************************************************************************)
(* Verification model of qlik-sense-mcp:                                   *)
(*   - TTLCache                     (qlik_sense_mcp_server/cache.py)       *)
(*   - QlikEngineAPI                (qlik_sense_mcp_server/engine_api.py)  *)
(*   - QlikEngineTestClient         (engine_test.py)                       *)
(* Each group of operations has its own specification over the shared      *)
(* variable list; a specification leaves the other groups' variables at    *)
(* their initial value.                                                    *)
(***************************************************************************)
EXTENDS Integers, Sequences, FiniteSets, TLC

VARIABLES
    \* ---- TTLCache (sequential view) ----
    cache,      \* self._cache: cache key -> [value, expiry]; DOMAIN = stored keys
    now,        \* the clock time.time() reads
    written,    \* history: per (name, kwargs) the last set not yet undone
    ret,        \* history: the last cache operation and what it returned
    \* ---- TTLCache (threads) ----
    lockOwner,  \* self._lock: 0 when free, else the owning thread
    tpc,        \* per thread: position inside its current operation
    tloc,       \* per thread: locals of the running operation
    expect,     \* history: per thread, the entry its own calls left at its key
    \* ---- engine session clients ----
    who,        \* which client class the run exercises: "api" or "test"
    ws,         \* self.ws: 0 for None, else the socket held
    appHandle,  \* QlikEngineTestClient.app_handle (-1: none)
    currentAppId, \* QlikEngineTestClient.current_app_id ("None": none)
    socks,      \* sockets opened by the client and not closed since
    opened,     \* history: the last open-document call that produced a handle
    last,       \* history: the last client operation, its inputs, I/O and outcome
    \* ---- send_request, message by message ----
    rpcWho,     \* which client class sends: "api" or "test"
    rpcOpen,    \* self.ws is a connected socket
    requestId,  \* self.request_id
    rpcPc,      \* "idle", or "reading" while send_request waits in recv
    inbox,      \* messages delivered to the socket and not read yet, oldest first
    pending,    \* ids of requests the engine has received and not answered
    produced,   \* number of messages the engine has delivered so far
    call,       \* history: the running or last send_request call
    \* ---- query operations and the engine's session objects ----
    live,       \* session objects alive on the engine
    qlast       \* history: the last query operation

cacheVars == <<cache, now, written, ret>>
concVars  == <<lockOwner, tpc, tloc, expect>>
nonCacheVars == <<lockOwner, tpc, tloc, expect,
                  who, ws, appHandle, currentAppId, socks, opened, last,
                  rpcWho, rpcOpen, requestId, rpcPc, inbox, pending, produced, call,
                  live, qlast>>
nonConcVars  == <<written, ret,
                  who, ws, appHandle, currentAppId, socks, opened, last,
                  rpcWho, rpcOpen, requestId, rpcPc, inbox, pending, produced, call,
                  live, qlast>>
nonSessVars  == <<cache, now, written, ret, lockOwner, tpc, tloc, expect,
                  rpcWho, rpcOpen, requestId, rpcPc, inbox, pending, produced, call,
                  live, qlast>>
sessVars  == <<who, ws, appHandle, currentAppId, socks, opened, last>>
rpcVars   == <<rpcWho, rpcOpen, requestId, rpcPc, inbox, pending, produced, call>>
queryVars == <<live, qlast>>
nonRpcVars   == <<cacheVars, concVars, sessVars, queryVars>>
nonQueryVars == <<cacheVars, concVars, sessVars, rpcVars>>
vars == <<cache, now, written, ret, lockOwner, tpc, tloc, expect,
          who, ws, appHandle, currentAppId, socks, opened, last,
          rpcWho, rpcOpen, requestId, rpcPc, inbox, pending, produced, call,
          live, qlast>>

(***************************************************************************)
(* The value each group of variables keeps in the specifications of the    *)
(* other groups                                                            *)
(***************************************************************************)
ConcIdle ==
    /\ lockOwner = 0
    /\ tpc = <<>>
    /\ tloc = <<>>
    /\ expect = <<>>

SessIdle ==
    /\ who = "none"
    /\ ws = 0
    /\ appHandle = -1
    /\ currentAppId = "None"
    /\ socks = {}
    /\ opened = <<>>
    /\ last = <<>>

RpcIdle ==
    /\ rpcWho = "none"
    /\ rpcOpen = FALSE
    /\ requestId = 0
    /\ rpcPc = "idle"
    /\ inbox = <<>>
    /\ pending = {}
    /\ produced = 0
    /\ call = <<>>

QueryIdle ==
    /\ live = {}
    /\ qlast = <<>>

(***************************************************************************)
(* Bounds                                                                  *)
(***************************************************************************)
MaxTime == 2
MaxSockets == 2
MaxRequests == 2
MaxMessages == 3
MaxObjects == 2

(***************************************************************************)
(* Program constants                                                       *)
(***************************************************************************)
DefaultTtl == 3600

(***************************************************************************)
(* TTLCache._generate_key                                                  *)
(***************************************************************************)
\* kwargs are ordered lists of <<name, value>> pairs with distinct names, the way
\* a call site writes them; values are small integers.
KwNames == <<"a", "b">>

KwRank(k) == CHOOSE i \in 1..Len(KwNames) : KwNames[i] = k

IntStr(n) == CASE n = 0 -> "0" [] n = 1 -> "1" [] n = 2 -> "2" [] OTHER -> "3"

\* sorted(kwargs.items()): insertion into an ascending list by name
RECURSIVE SortedInsert(_, _)
SortedInsert(item, s) ==
    IF s = <<>> THEN <<item>>
    ELSE IF KwRank(item[1]) <= KwRank(Head(s)[1]) THEN <<item>> \o s
    ELSE <<Head(s)>> \o SortedInsert(item, Tail(s))

\* the items in the order the call site gave them
SortedItemsAsGiven(kw) == kw

RECURSIVE SortedItems(_)
SortedItems(kw) ==
    IF kw = <<>> THEN <<>> ELSE SortedInsert(Head(kw), SortedItems(Tail(kw)))

\* json.dumps of a list of (name, value) tuples: [["a", 1], ["b", 2]]
RECURSIVE DumpItems(_)
DumpItems(s) ==
    IF s = <<>> THEN ""
    ELSE "[\"" \o Head(s)[1] \o "\", " \o IntStr(Head(s)[2]) \o "]"
         \o (IF Tail(s) = <<>> THEN "" ELSE ", " \o DumpItems(Tail(s)))

JsonDumps(s) == "[" \o DumpItems(s) \o "]"

\* The string _generate_key hashes.  The MD5 digest of it is the map key; the
\* digest is taken as one-to-one on these short strings, so the string stands
\* for the digest.
GenerateKey(key, kw) ==
    IF kw # <<>> THEN key \o ":" \o JsonDumps(SortedItems(kw)) ELSE key

(***************************************************************************)
(* Inputs of the cache operations                                          *)
(***************************************************************************)
Names == {"k", "k:[[\"a\", 1]]"}
Kwargs == { <<>>, << <<"a", 1>> >>, << <<"b", 2>>, <<"a", 1>> >> }
Pairs == { [name |-> "k", kw |-> <<>>],
           [name |-> "k", kw |-> << <<"a", 1>> >>],
           [name |-> "k:[[\"a\", 1]]", kw |-> <<>>] }
Values == {"v1", "v2"}
\* ttl argument: <<>> is "omitted" (None), <<n>> an explicit ttl
TtlArgs == { <<>>, <<0>>, <<1>> }
None == "None"

KeyOf(p) == GenerateKey(p.name, p.kw)

(***************************************************************************)
(* TTLCache: the map operations                                            *)
(***************************************************************************)
\* the assignment replacing the whole map instead of one slot
StoreClobber(c, ck, e) == [k \in {ck} |-> e]

\* the removal taking every expired-or-not neighbour with it
DeleteAll(c, ck) == [k \in {} |-> c[k]]

Store(c, ck, e) == [k \in (DOMAIN c) \cup {ck} |-> IF k = ck THEN e ELSE c[k]]
Delete(c, ck)   == [k \in (DOMAIN c) \ {ck} |-> c[k]]

\* ttl defaulting and expiry_time = time.time() + ttl
EffectiveTtl(ttl) == IF ttl = <<>> THEN DefaultTtl ELSE ttl[1]
ExpiryTime(t, ttl) == t + EffectiveTtl(ttl)

\* the expiry test of get, cleanup_expired and stats: time.time() > expiry_time
IsExpired(t, expiry) == t > expiry

NoWrite == [set |-> FALSE, v |-> None, t |-> 0, ttl |-> 0]

CacheGet(p) ==
    LET ck == KeyOf(p) IN
    /\ IF ck \notin DOMAIN cache
         THEN /\ cache' = cache
              /\ ret' = [op |-> "get", p |-> p, at |-> now, result |-> None]
         ELSE IF IsExpired(now, cache[ck].expiry)
         THEN /\ cache' = Delete(cache, ck)
              /\ ret' = [op |-> "get", p |-> p, at |-> now, result |-> None]
         ELSE /\ cache' = cache
              /\ ret' = [op |-> "get", p |-> p, at |-> now, result |-> cache[ck].value]
    /\ UNCHANGED <<now, written>>

CacheSet(p, v, ttl) ==
    /\ cache' = Store(cache, KeyOf(p), [value |-> v, expiry |-> ExpiryTime(now, ttl)])
    /\ written' = [written EXCEPT ![p] =
                      [set |-> TRUE, v |-> v, t |-> now, ttl |-> EffectiveTtl(ttl)]]
    /\ ret' = [op |-> "set", p |-> p, at |-> now, result |-> None]
    /\ UNCHANGED now

CacheInvalidate(p) ==
    LET ck == KeyOf(p) IN
    /\ IF ck \in DOMAIN cache
         THEN /\ cache' = Delete(cache, ck)
              /\ ret' = [op |-> "invalidate", p |-> p, at |-> now, result |-> TRUE]
         ELSE /\ cache' = cache
              /\ ret' = [op |-> "invalidate", p |-> p, at |-> now, result |-> FALSE]
    /\ written' = [written EXCEPT ![p] = NoWrite]
    /\ UNCHANGED now

CacheClear ==
    /\ cache' = [k \in {} |-> 0]
    /\ written' = [p \in Pairs |-> NoWrite]
    /\ ret' = [op |-> "clear", p |-> CHOOSE p \in Pairs : TRUE, at |-> now, result |-> None]
    /\ UNCHANGED now

\* the sweep taking every key for expired
ExpiredKeysAll(c, t) == DOMAIN c

ExpiredKeys(c, t) == {k \in DOMAIN c : IsExpired(t, c[k].expiry)}

CacheCleanupExpired ==
    LET gone == ExpiredKeys(cache, now) IN
    /\ cache' = [k \in (DOMAIN cache) \ gone |-> cache[k]]
    /\ ret' = [op |-> "cleanup_expired", p |-> CHOOSE p \in Pairs : TRUE, at |-> now,
               result |-> Cardinality(gone)]
    /\ UNCHANGED <<now, written>>

CacheSize ==
    /\ ret' = [op |-> "size", p |-> CHOOSE p \in Pairs : TRUE, at |-> now,
               result |-> Cardinality(DOMAIN cache)]
    /\ UNCHANGED <<cache, now, written>>

CacheStats ==
    LET total == Cardinality(DOMAIN cache)
        expired == Cardinality(ExpiredKeys(cache, now)) IN
    /\ ret' = [op |-> "stats", p |-> CHOOSE p \in Pairs : TRUE, at |-> now,
               result |-> [total_entries |-> total,
                           active_entries |-> total - expired,
                           expired_entries |-> expired,
                           default_ttl |-> DefaultTtl]]
    /\ UNCHANGED <<cache, now, written>>

\* time passes between calls
Tick ==
    /\ now < MaxTime
    /\ now' = now + 1
    /\ UNCHANGED <<cache, written, ret>>

CacheInit ==
    /\ cache = [k \in {} |-> 0]
    /\ now = 0
    /\ written = [p \in Pairs |-> NoWrite]
    /\ ret = [op |-> "init", p |-> CHOOSE p \in Pairs : TRUE, at |-> 0, result |-> None]
    /\ ConcIdle
    /\ SessIdle
    /\ RpcIdle
    /\ QueryIdle

CacheNext ==
    \/ \E p \in Pairs : CacheGet(p) /\ UNCHANGED nonCacheVars
    \/ \E p \in Pairs, v \in Values, ttl \in TtlArgs : CacheSet(p, v, ttl) /\ UNCHANGED nonCacheVars
    \/ \E p \in Pairs : CacheInvalidate(p) /\ UNCHANGED nonCacheVars
    \/ CacheClear /\ UNCHANGED nonCacheVars
    \/ CacheCleanupExpired /\ UNCHANGED nonCacheVars
    \/ CacheSize /\ UNCHANGED nonCacheVars
    \/ CacheStats /\ UNCHANGED nonCacheVars
    \/ Tick /\ UNCHANGED nonCacheVars

SpecCache == CacheInit /\ [][CacheNext]_vars

(***************************************************************************)
(* C1 -- as stated: after set(name, v, ttl, params) at time t, a get on the *)
(* same (name, params) returns v while now < t + ttl and None once          *)
(* now >= t + ttl, as long as that (name, params) was not set again,        *)
(* invalidated or cleared; calls on other (name, params) do not matter.     *)
(***************************************************************************)
C1_GetFollowsOwnSet ==
    (ret.op = "get" /\ written[ret.p].set) =>
        LET w == written[ret.p] IN
        IF ret.at < w.t + w.ttl THEN ret.result = w.v ELSE ret.result = None
\* C21: cleanup_expired removes exactly the entries whose expiry has passed
\* when it is called, leaves every other entry as it is and returns the
\* number of entries removed; a stats call right after it, at the same time,
\* counts no entry as expired.
C21_SweepRemovesExpired ==
    [][ /\ (now' = now /\ ret' # ret /\ ret'.op = "cleanup_expired") =>
              LET gone == {k \in DOMAIN cache : now > cache[k].expiry}
              IN /\ DOMAIN cache' = (DOMAIN cache) \ gone
                 /\ \A k \in DOMAIN cache' : cache'[k] = cache[k]
                 /\ ret'.result = Cardinality(gone)
        /\ (ret.op = "cleanup_expired" /\ ret'.op = "stats" /\ ret'.at = ret.at) =>
              /\ ret'.result.expired_entries = 0
              /\ ret'.result.total_entries = Cardinality(DOMAIN cache)
              /\ ret'.result.active_entries = Cardinality(DOMAIN cache) ]_vars

\* a sweep that removed an entry and left another one
C21_Witness ==
    /\ ret.op = "cleanup_expired"
    /\ ret.result = 1
    /\ Cardinality(DOMAIN cache) = 1
    /\ ret.at = now

\* the map operation a call addresses key k with
Addresses(r, k) == r.op \in {"get", "set", "invalidate"} /\ KeyOf(r.p) = k

\* C22: an expired entry stays in the map as it is through every call except
\* a get, an invalidate or a set on its own key, cleanup_expired and clear;
\* size counts it, and stats counts it as expired.
C22_ExpiredStaysUntilTouched ==
    [][ now' = now =>
          /\ \A k \in DOMAIN cache :
                now > cache[k].expiry =>
                    \/ k \in DOMAIN cache' /\ cache'[k] = cache[k]
                    \/ ret'.op \in {"cleanup_expired", "clear"}
                    \/ Addresses(ret', k)
          /\ (ret' # ret /\ ret'.op = "size") => ret'.result = Cardinality(DOMAIN cache)
          /\ (ret' # ret /\ ret'.op = "stats") =>
                ret'.result.expired_entries =
                    Cardinality({k \in DOMAIN cache : now > cache[k].expiry}) ]_vars

\* stats counting two entries in the map, one of them expired
C22_Witness ==
    /\ ret.op = "stats"
    /\ ret.result.expired_entries = 1
    /\ ret.result.total_entries = 2

\* C23: invalidate returns true exactly when the key holds an entry that has
\* not expired, leaves the key without an entry, and changes the entry of no
\* other key.
C23_InvalidateReportsLiveEntry ==
    [][ (now' = now /\ ret' # ret /\ ret'.op = "invalidate") =>
            LET k == KeyOf(ret'.p)
            IN /\ ret'.result = (k \in DOMAIN cache /\ ~(now > cache[k].expiry))
               /\ k \notin DOMAIN cache'
               /\ \A j \in (DOMAIN cache) \ {k} :
                     j \in DOMAIN cache' /\ cache'[j] = cache[j] ]_vars

\* C28: two distinct (name, params) pairs that were set derive distinct
\* keys, and a get returns a value only if its own pair was set and not
\* invalidated or cleared since.
C28_DistinctPairsDistinctKeys ==
    /\ \A p, q \in Pairs :
          (p # q /\ written[p].set /\ written[q].set) => KeyOf(p) # KeyOf(q)
    /\ (ret.op = "get" /\ ret.result # None) => written[ret.p].set


(***************************************************************************)
(* One parameter map written in two orders, and a different map.           *)
(***************************************************************************)
OrderPairs == { [name |-> "k", kw |-> << <<"a", 1>>, <<"b", 2>> >>],
                [name |-> "k", kw |-> << <<"b", 2>>, <<"a", 1>> >>],
                [name |-> "k", kw |-> << <<"a", 1>> >>] }

\* ttl arguments: omitted, and one that runs out while time is modelled
KeyTtls == { <<>>, <<1>> }

\* the same name and the same parameter map, whatever the order of its entries
SameParams(p, q) ==
    /\ p.name = q.name
    /\ {p.kw[i] : i \in 1..Len(p.kw)} = {q.kw[i] : i \in 1..Len(q.kw)}

KeyInit ==
    /\ cache = [k \in {} |-> 0]
    /\ now = 0
    /\ written = [p \in OrderPairs |-> NoWrite]
    /\ ret = [op |-> "init", p |-> CHOOSE p \in OrderPairs : TRUE, at |-> 0, result |-> None]
    /\ ConcIdle
    /\ SessIdle
    /\ RpcIdle
    /\ QueryIdle

KeyNext ==
    \/ \E p \in OrderPairs : CacheGet(p) /\ UNCHANGED nonCacheVars
    \/ \E p \in OrderPairs, v \in Values, ttl \in KeyTtls :
          CacheSet(p, v, ttl) /\ UNCHANGED nonCacheVars
    \/ \E p \in OrderPairs : CacheInvalidate(p) /\ UNCHANGED nonCacheVars
    \/ Tick /\ UNCHANGED nonCacheVars

SpecKey == KeyInit /\ [][KeyNext]_vars

\* C20: the key does not depend on the order of the parameters: when
\* set(name, v, params) is followed by get on the same name and the same
\* parameter map in any order, before the entry expires, get returns v; when
\* it is followed by invalidate on them, invalidate finds the entry and
\* removes it.
C20_OrderIndependent ==
    [][ (ret.op = "set" /\ ret'.op \in {"get", "invalidate"} /\ SameParams(ret.p, ret'.p)) =>
            IF ret'.op = "get"
            THEN ~IsExpired(ret'.at, written[ret.p].t + written[ret.p].ttl) =>
                     ret'.result = written[ret.p].v
            ELSE /\ ret'.result = TRUE
                 /\ KeyOf(ret.p) \notin DOMAIN cache' ]_vars

\* a get that found what was set under the other order of the parameters
C20_Witness ==
    /\ ret.op = "get" /\ ret.result \in Values
    /\ ret.p.kw = << <<"b", 2>>, <<"a", 1>> >>
    /\ ~written[ret.p].set
    /\ written[[name |-> "k", kw |-> << <<"a", 1>>, <<"b", 2>> >>]].set
    /\ Cardinality(DOMAIN cache) = 1

(***************************************************************************)
(* TTLCache under threads: every operation computes its key (and set its   *)
(* expiry) outside the lock, then takes self._lock around the map access.  *)
(***************************************************************************)
Threads == {1, 2}

\* The threads work on disjoint keys: thread 1 on the plain name, thread 2 on
\* the two (name, kwargs) spellings that derive the other map key.
ThreadPairs(t) == IF t = 1 THEN {[name |-> "k", kw |-> <<>>]}
                  ELSE {[name |-> "k", kw |-> << <<"a", 1>> >>],
                        [name |-> "k:[[\"a\", 1]]", kw |-> <<>>]}
ThreadKey(t) == KeyOf(CHOOSE p \in ThreadPairs(t) : TRUE)

NoEntry == [present |-> FALSE, value |-> None, expiry |-> 0]
EntryOf(v, e) == [present |-> TRUE, value |-> v, expiry |-> e]
CacheAt(c, ck) == IF ck \in DOMAIN c THEN EntryOf(c[ck].value, c[ck].expiry) ELSE NoEntry

IdleLoc == [op |-> "none", ck |-> "", v |-> None, expiry |-> 0, at |-> 0, result |-> None]

\* a lock that lets every thread in
CanAcquireAlways(t) == TRUE

\* with self._lock: entering blocks until the lock is free (or already ours: RLock)
CanAcquire(t) == lockOwner = 0 \/ lockOwner = t

\* set, lines 76-80: ttl default, key, expiry_time read from the clock
SetBegin(t, p, v, ttl) ==
    /\ tpc[t] = "idle"
    /\ tpc' = [tpc EXCEPT ![t] = "set_lock"]
    /\ tloc' = [tloc EXCEPT ![t] = [op |-> "set", ck |-> KeyOf(p), v |-> v,
                                     expiry |-> ExpiryTime(now, ttl), at |-> now,
                                     result |-> None]]
    /\ UNCHANGED <<cache, now, lockOwner, expect>>

\* set, line 82
SetLock(t) ==
    /\ tpc[t] = "set_lock"
    /\ CanAcquire(t)
    /\ lockOwner' = t
    /\ tpc' = [tpc EXCEPT ![t] = "set_store"]
    /\ UNCHANGED <<cache, now, tloc, expect>>

\* set, line 83
SetStore(t) ==
    /\ tpc[t] = "set_store"
    /\ cache' = Store(cache, tloc[t].ck, [value |-> tloc[t].v, expiry |-> tloc[t].expiry])
    /\ tpc' = [tpc EXCEPT ![t] = "set_unlock"]
    /\ UNCHANGED <<now, lockOwner, tloc, expect>>

\* leaving the with block, then return
SetReturn(t) ==
    /\ tpc[t] = "set_unlock"
    /\ lockOwner' = 0
    /\ tpc' = [tpc EXCEPT ![t] = "idle"]
    /\ expect' = [expect EXCEPT ![t] = EntryOf(tloc[t].v, tloc[t].expiry)]
    /\ tloc' = [tloc EXCEPT ![t] = IdleLoc]
    /\ UNCHANGED <<cache, now>>

\* get, line 51
GetBegin(t, p) ==
    /\ tpc[t] = "idle"
    /\ tpc' = [tpc EXCEPT ![t] = "get_lock"]
    /\ tloc' = [tloc EXCEPT ![t] = [IdleLoc EXCEPT !.op = "get", !.ck = KeyOf(p)]]
    /\ UNCHANGED <<cache, now, lockOwner, expect>>

\* get, line 53
GetLock(t) ==
    /\ tpc[t] = "get_lock"
    /\ CanAcquire(t)
    /\ lockOwner' = t
    /\ tpc' = [tpc EXCEPT ![t] = "get_check"]
    /\ UNCHANGED <<cache, now, tloc, expect>>

\* get, lines 54-57: membership test, then the entry is read into locals
GetCheck(t) ==
    /\ tpc[t] = "get_check"
    /\ IF tloc[t].ck \notin DOMAIN cache
         THEN /\ tpc' = [tpc EXCEPT ![t] = "get_unlock"]
              /\ tloc' = [tloc EXCEPT ![t].result = None, ![t].at = now]
         ELSE /\ tpc' = [tpc EXCEPT ![t] = "get_time"]
              /\ tloc' = [tloc EXCEPT ![t].v = cache[tloc[t].ck].value,
                                      ![t].expiry = cache[tloc[t].ck].expiry]
    /\ UNCHANGED <<cache, now, lockOwner, expect>>

\* get, lines 60-64: the clock is read under the lock
GetTime(t) ==
    /\ tpc[t] = "get_time"
    /\ IF IsExpired(now, tloc[t].expiry)
         THEN /\ cache' = Delete(cache, tloc[t].ck)
              /\ tloc' = [tloc EXCEPT ![t].result = None, ![t].at = now]
         ELSE /\ cache' = cache
              /\ tloc' = [tloc EXCEPT ![t].result = tloc[t].v, ![t].at = now]
    /\ tpc' = [tpc EXCEPT ![t] = "get_unlock"]
    /\ UNCHANGED <<now, lockOwner, expect>>

GetReturn(t) ==
    /\ tpc[t] = "get_unlock"
    /\ lockOwner' = 0
    /\ tpc' = [tpc EXCEPT ![t] = "idle"]
    /\ expect' = [expect EXCEPT ![t] =
                     IF tloc[t].result = None THEN NoEntry ELSE @]
    /\ tloc' = [tloc EXCEPT ![t] = IdleLoc]
    /\ UNCHANGED <<cache, now>>

ConcTick ==
    /\ now < MaxTime
    /\ now' = now + 1
    /\ UNCHANGED <<cache, lockOwner, tpc, tloc, expect>>

ConcInit ==
    /\ cache = [k \in {} |-> 0]
    /\ now = 0
    /\ written = [p \in Pairs |-> NoWrite]
    /\ ret = [op |-> "init", p |-> CHOOSE p \in Pairs : TRUE, at |-> 0, result |-> None]
    /\ lockOwner = 0
    /\ tpc = [t \in Threads |-> "idle"]
    /\ tloc = [t \in Threads |-> IdleLoc]
    /\ expect = [t \in Threads |-> NoEntry]
    /\ SessIdle
    /\ RpcIdle
    /\ QueryIdle

ConcNext ==
    \/ \E t \in Threads : \E p \in ThreadPairs(t), v \in Values, ttl \in TtlArgs :
          SetBegin(t, p, v, ttl) /\ UNCHANGED nonConcVars
    \/ \E t \in Threads : SetLock(t) /\ UNCHANGED nonConcVars
    \/ \E t \in Threads : SetStore(t) /\ UNCHANGED nonConcVars
    \/ \E t \in Threads : SetReturn(t) /\ UNCHANGED nonConcVars
    \/ \E t \in Threads : \E p \in ThreadPairs(t) : GetBegin(t, p) /\ UNCHANGED nonConcVars
    \/ \E t \in Threads : GetLock(t) /\ UNCHANGED nonConcVars
    \/ \E t \in Threads : GetCheck(t) /\ UNCHANGED nonConcVars
    \/ \E t \in Threads : GetTime(t) /\ UNCHANGED nonConcVars
    \/ \E t \in Threads : GetReturn(t) /\ UNCHANGED nonConcVars
    \/ ConcTick /\ UNCHANGED nonConcVars

SpecConc == ConcInit /\ [][ConcNext]_vars

(***************************************************************************)
(* C2 -- threads calling set and get on disjoint keys: between a thread's  *)
(* calls its key holds exactly the entry the thread's own calls left there *)
(* (the value and expiry of its last set, or nothing before its first set  *)
(* and once its own get evicted the entry), and every get returns what a   *)
(* serial run of that thread's calls returns -- whatever the other thread  *)
(* does on its key in between.                                             *)
(***************************************************************************)
C2_DisjointKeysSerial ==
    \A t \in Threads :
        /\ tpc[t] = "idle" => CacheAt(cache, ThreadKey(t)) = expect[t]
        /\ tpc[t] = "get_unlock" =>
               tloc[t].result =
                   IF expect[t].present /\ ~(tloc[t].at > expect[t].expiry)
                   THEN expect[t].value ELSE None

\* a get about to return the caller's own value while the other thread, which
\* has written before, is inside a further set waiting for the lock
C2_Witness ==
    \E t1, t2 \in Threads :
        /\ t1 # t2
        /\ tpc[t1] = "get_unlock" /\ tloc[t1].result # None
        /\ tpc[t2] = "set_lock" /\ expect[t2].present
        /\ tloc[t2].v # expect[t2].value
(***************************************************************************)
(* The module-level caches and their helpers.  Here cache holds the maps   *)
(* of app_metadata_cache (meta) and field_info_cache (field).              *)
(***************************************************************************)
Apps == {"A", "B"}
Fields == {"F"}

\* f"app_{operation}_{app_id}", f"field_{operation}_{app_id}_{field_name}"
CacheKeyForApp(app_id, operation) == "app_" \o operation \o "_" \o app_id
CacheKeyForField(app_id, field_name, operation) ==
    "field_" \o operation \o "_" \o app_id \o "_" \o field_name

MetaKey(a) == GenerateKey(CacheKeyForApp(a, "metadata"), <<>>)
FieldKey(a, f) == GenerateKey(CacheKeyForField(a, f, "info"), <<>>)

\* TTLCache.get, set and invalidate on the map c at time t
MapGet(c, t, ck) ==
    IF ck \notin DOMAIN c THEN [c |-> c, result |-> None]
    ELSE IF IsExpired(t, c[ck].expiry) THEN [c |-> Delete(c, ck), result |-> None]
    ELSE [c |-> c, result |-> c[ck].value]
MapSet(c, t, ck, v, ttl) == Store(c, ck, [value |-> v, expiry |-> ExpiryTime(t, ttl)])
MapInvalidate(c, ck) == IF ck \in DOMAIN c THEN Delete(c, ck) ELSE c

AppRet(op, a, f, result) == [op |-> op, app |-> a, field |-> f, result |-> result]

GetCachedAppMetadata(a) ==
    LET g == MapGet(cache.meta, now, MetaKey(a))
    IN /\ cache' = [cache EXCEPT !.meta = g.c]
       /\ ret' = AppRet("get_cached_app_metadata", a, "", g.result)
       /\ UNCHANGED <<now, written>>

SetCachedAppMetadata(a, v) ==
    /\ cache' = [cache EXCEPT !.meta = MapSet(@, now, MetaKey(a), v, <<>>)]
    /\ ret' = AppRet("set_cached_app_metadata", a, "", None)
    /\ UNCHANGED <<now, written>>

GetCachedFieldInfo(a, f) ==
    LET g == MapGet(cache.field, now, FieldKey(a, f))
    IN /\ cache' = [cache EXCEPT !.field = g.c]
       /\ ret' = AppRet("get_cached_field_info", a, f, g.result)
       /\ UNCHANGED <<now, written>>

SetCachedFieldInfo(a, f, v) ==
    /\ cache' = [cache EXCEPT !.field = MapSet(@, now, FieldKey(a, f), v, <<>>)]
    /\ ret' = AppRet("set_cached_field_info", a, f, None)
    /\ UNCHANGED <<now, written>>

\* app_metadata_cache.invalidate(cache_key_for_app(app_id)) and nothing else
InvalidateAppCache(a) ==
    /\ cache' = [cache EXCEPT !.meta = MapInvalidate(@, MetaKey(a))]
    /\ ret' = AppRet("invalidate_app_cache", a, "", None)
    /\ UNCHANGED <<now, written>>

AppInit ==
    /\ cache = [meta |-> [k \in {} |-> 0], field |-> [k \in {} |-> 0]]
    /\ now = 0
    /\ written = <<>>
    /\ ret = AppRet("init", "", "", None)
    /\ ConcIdle
    /\ SessIdle
    /\ RpcIdle
    /\ QueryIdle

AppNext ==
    \/ \E a \in Apps : GetCachedAppMetadata(a) /\ UNCHANGED nonCacheVars
    \/ \E a \in Apps, v \in Values : SetCachedAppMetadata(a, v) /\ UNCHANGED nonCacheVars
    \/ \E a \in Apps, f \in Fields : GetCachedFieldInfo(a, f) /\ UNCHANGED nonCacheVars
    \/ \E a \in Apps, f \in Fields, v \in Values :
          SetCachedFieldInfo(a, f, v) /\ UNCHANGED nonCacheVars
    \/ \E a \in Apps : InvalidateAppCache(a) /\ UNCHANGED nonCacheVars
    \/ Tick /\ UNCHANGED nonCacheVars

SpecApp == AppInit /\ [][AppNext]_vars

\* C27: when invalidate_app_cache(app_id) has returned, neither the metadata
\* nor the information of any field of app_id is readable from the caches.
C27_AppCacheInvalidated ==
    ret.op = "invalidate_app_cache" =>
        /\ MapGet(cache.meta, now, MetaKey(ret.app)).result = None
        /\ \A f \in Fields : MapGet(cache.field, now, FieldKey(ret.app, f)).result = None


(***************************************************************************)
(* Both threads calling set and get on one and the same key.               *)
(***************************************************************************)
RacePairs == {[name |-> "k", kw |-> <<>>]}
RaceKey == KeyOf(CHOOSE p \in RacePairs : TRUE)

RaceNext ==
    \/ \E t \in Threads : \E p \in RacePairs, v \in Values, ttl \in TtlArgs :
          SetBegin(t, p, v, ttl) /\ UNCHANGED nonConcVars
    \/ \E t \in Threads : SetLock(t) /\ UNCHANGED nonConcVars
    \/ \E t \in Threads : SetStore(t) /\ UNCHANGED nonConcVars
    \/ \E t \in Threads : SetReturn(t) /\ UNCHANGED nonConcVars
    \/ \E t \in Threads : \E p \in RacePairs : GetBegin(t, p) /\ UNCHANGED nonConcVars
    \/ \E t \in Threads : GetLock(t) /\ UNCHANGED nonConcVars
    \/ \E t \in Threads : GetCheck(t) /\ UNCHANGED nonConcVars
    \/ \E t \in Threads : GetTime(t) /\ UNCHANGED nonConcVars
    \/ \E t \in Threads : GetReturn(t) /\ UNCHANGED nonConcVars
    \/ ConcTick /\ UNCHANGED nonConcVars

SpecRace == ConcInit /\ [][RaceNext]_vars

\* C26: a get racing with a set on the same key never deletes what the set
\* stored: an entry leaves the map only when it has expired and is the entry
\* the evicting get inspected, and a get that finds an entry answers with the
\* value the map holds at that moment unless that entry has expired.
C26_EvictsOnlyWhatItInspected ==
    [][ /\ \A k \in DOMAIN cache : k \notin DOMAIN cache' => now > cache[k].expiry
        /\ \A t \in Threads :
              (tpc[t] = "get_time" /\ tpc'[t] = "get_unlock") =>
                  /\ tloc[t].ck \in DOMAIN cache
                  /\ cache[tloc[t].ck] = [value |-> tloc[t].v, expiry |-> tloc[t].expiry]
                  /\ tloc'[t].result = IF now > cache[tloc[t].ck].expiry
                                       THEN None ELSE cache[tloc[t].ck].value ]_vars

\* a get that has just evicted an expired entry while the other thread is
\* inside a set on the same key, waiting for the lock
C26_Witness ==
    \E t1, t2 \in Threads :
        /\ t1 # t2
        /\ tpc[t1] = "get_unlock" /\ tloc[t1].result = None
        /\ tloc[t1].at > tloc[t1].expiry /\ tloc[t1].v # None
        /\ RaceKey \notin DOMAIN cache
        /\ tpc[t2] = "set_lock" /\ tloc[t2].ck = RaceKey
        /\ tloc[t2].expiry > now


(***************************************************************************)
(* Engine session clients: QlikEngineAPI (engine_api.py) and               *)
(* QlikEngineTestClient (engine_test.py).  A run exercises one client      *)
(* object of one of the two classes.  Every method is one action; what the *)
(* network and the engine answer is drawn as its input, and the I/O it     *)
(* performs is recorded, in order, in last.log.                            *)
(***************************************************************************)
Docs == {"A", "B"}
NoDoc == "None"
Handles == {1, 2}

Url(scheme, path) == [scheme |-> scheme, path |-> path]
NoUrl == Url("", "")

\* f"wss://{server_host}:{port}/app/engineData", ... : scheme and path
GlobalEndpoints ==
    << Url("wss", "/app/engineData"), Url("wss", "/app"),
       Url("ws", "/app/engineData"), Url("ws", "/app") >>

DocEndpoints(app_id) == << Url("wss", "/app/" \o app_id), Url("ws", "/app/" \o app_id) >>

\* QlikEngineAPI.connect builds the same list whatever app_id is
ApiEndpoints(app_id) == GlobalEndpoints

\* QlikEngineTestClient.connect: if app_id: ... else: ...
TcEndpoints(app_id) == IF app_id # NoDoc THEN DocEndpoints(app_id) ELSE GlobalEndpoints

\* I/O events
EvAttempt(u)        == [e |-> "attempt", url |-> u, s |-> 0, m |-> "", a |-> "", h |-> -1]
EvOpen(u, sk)       == [e |-> "open", url |-> u, s |-> sk, m |-> "", a |-> "", h |-> -1]
EvClose(sk)         == [e |-> "close", url |-> NoUrl, s |-> sk, m |-> "", a |-> "", h |-> -1]
EvSend(sk, m, a, h) == [e |-> "send", url |-> NoUrl, s |-> sk, m |-> m, a |-> a, h |-> h]

\* exceptions: where they come from, whether their text contains
\* "already open", and for a ConnectionError the failure it embeds
NoCause == [idx |-> 0, why |-> ""]
Err(origin, ao, cause) == [origin |-> origin, alreadyOpen |-> ao, cause |-> cause]
NoErr           == Err("", FALSE, NoCause)
ErrEngine(ao)   == Err("engine", ao, NoCause)
ErrTransport    == Err("transport", FALSE, NoCause)
ErrNotConnected == Err("not_connected", FALSE, NoCause)
ErrSsl          == Err("ssl", FALSE, NoCause)
ErrKey          == Err("KeyError", FALSE, NoCause)
ErrConnect(c)   == Err("connect", FALSE, c)

\* "already open" in str(e).lower()
SaysAlreadyOpen(e) == e.alreadyOpen

\* values: None, booleans, dicts with the keys the clients look at, doc lists
Pay(t, b, hr, he, qr, hh, h, docs) ==
    [t |-> t, b |-> b, hasResult |-> hr, hasError |-> he, qReturn |-> qr,
     hasHandle |-> hh, qHandle |-> h, docs |-> docs]
PNone            == Pay("none", FALSE, FALSE, FALSE, FALSE, FALSE, -1, <<>>)
PBool(b)         == Pay("bool", b, FALSE, FALSE, FALSE, FALSE, -1, <<>>)
\* a result dict: {"qReturn": {"qHandle": h}}, {"qReturn": {}}, {}
PDict(qr, hh, h) == Pay("dict", FALSE, FALSE, FALSE, qr, hh, h, <<>>)
\* a GetDocList result: {"qDocList": docs} (isList) or something else
PDocs(isList, d) == Pay("docs", isList, FALSE, FALSE, FALSE, FALSE, -1, d)
\* a whole message as the test client returns it: {"result": {...}}, {"error": ...}
\* or a message with neither key
PResp(hr, he, qr, hh, h) == Pay("response", FALSE, hr, he, qr, hh, h, <<>>)

Ret(v)   == [k |-> "return", val |-> v, err |-> NoErr]
Raise(e) == [k |-> "raise", val |-> PNone, err |-> e]

\* what send_request of QlikEngineAPI can hand back for a request that was sent
DictOuts ==
    {Ret(PDict(TRUE, TRUE, h)) : h \in Handles}
        \cup {Ret(PDict(TRUE, FALSE, -1)), Ret(PDict(FALSE, FALSE, -1))}
        \cup {Raise(ErrEngine(TRUE)), Raise(ErrEngine(FALSE)), Raise(ErrTransport)}

DocEntry(id, name, hh, h) == [qDocId |-> id, qDocName |-> name, hasHandle |-> hh, qHandle |-> h]
DocEntries == { DocEntry("A", "sales", FALSE, -1), DocEntry("B", "stock", TRUE, 2),
                DocEntry("C", "A", TRUE, 1) }
DocLists == {<<>>} \cup {<<d>> : d \in DocEntries}
DocListOuts ==
    {Ret(PDocs(TRUE, d)) : d \in DocLists} \cup {Ret(PDocs(FALSE, <<>>))}
        \cup {Raise(ErrEngine(FALSE)), Raise(ErrTransport)}

\* what one recv of the test client can parse after a request was sent, or the
\* {"error": str(e)} it builds when send or recv raise
TcResponses ==
    {PResp(TRUE, FALSE, TRUE, TRUE, h) : h \in Handles}
        \cup {PResp(TRUE, FALSE, TRUE, FALSE, -1), PResp(TRUE, FALSE, FALSE, FALSE, -1),
              PResp(FALSE, TRUE, FALSE, FALSE, -1), PResp(FALSE, FALSE, FALSE, FALSE, -1)}

\* the client's fields while a method runs, with the sockets and the I/O log;
\* over: the transport was asked for more sockets than MaxSockets
ClientState == [ws |-> ws, socks |-> socks, over |-> FALSE, log |-> <<>>,
                cur |-> currentAppId, handle |-> appHandle]

\* the socket create_connection hands out: the lowest descriptor not in use
NewSock(st) == CHOOSE s \in 1..MaxSockets : s \notin st.socks /\ \A t \in 1..(s - 1) : t \in st.socks

\* self.ws = websocket.create_connection(url, ...) succeeded
Connected(st, url) ==
    IF st.over \/ Cardinality(st.socks) >= MaxSockets
    THEN [st EXCEPT !.over = TRUE]
    ELSE [st EXCEPT !.ws = NewSock(st), !.socks = @ \cup {NewSock(st)},
                    !.log = Append(@, EvOpen(url, NewSock(st)))]

\* self.ws.close(); self.ws = None      (under "if self.ws:")
CloseWs(st) ==
    IF st.ws # 0
    THEN [st EXCEPT !.socks = @ \ {st.ws}, !.log = Append(@, EvClose(st.ws)), !.ws = 0]
    ELSE st

\* per candidate: create_connection raises, the greeting read raises, both succeed
ConnOutcomes == {"refused", "nogreet", "ok"}

\* outcomes per candidate; those after the first "ok" are never consulted and
\* are fixed to "ok"
OutcomeSeqs(n) ==
    {o \in [1..n -> ConnOutcomes] : \A i, j \in 1..n : (i < j /\ o[i] = "ok") => o[j] = "ok"}

\* the two plain runs: the first candidate answers, or no candidate is reachable
PlainOutcomeSeqs(n) == {[i \in 1..n |-> "ok"], [i \in 1..n |-> "refused"]}

\* the loop without the close in its except branch
RECURSIVE ConnectLoopNoClose(_, _, _, _, _)
ConnectLoopNoClose(urls, outs, i, st, err) ==
    IF i > Len(urls) THEN [st |-> st, ok |-> FALSE, err |-> err]
    ELSE LET tried == [st EXCEPT !.log = Append(@, EvAttempt(urls[i]))]
             made  == Connected(tried, urls[i])
         IN CASE outs[i] = "ok" -> [st |-> made, ok |-> TRUE, err |-> err]
              [] outs[i] = "nogreet" ->
                   ConnectLoopNoClose(urls, outs, i + 1, [made EXCEPT !.ws = 0],
                                      [idx |-> i, why |-> "greeting"])
              [] OTHER ->
                   ConnectLoopNoClose(urls, outs, i + 1, [tried EXCEPT !.ws = 0],
                                      [idx |-> i, why |-> "handshake"])

\* the loop without the return after the greeting
RECURSIVE ConnectLoopNoReturn(_, _, _, _, _)
ConnectLoopNoReturn(urls, outs, i, st, err) ==
    IF i > Len(urls) THEN [st |-> st, ok |-> st.ws # 0, err |-> err]
    ELSE LET tried == [st EXCEPT !.log = Append(@, EvAttempt(urls[i]))]
             made  == Connected(tried, urls[i])
         IN CASE outs[i] = "ok" -> ConnectLoopNoReturn(urls, outs, i + 1, made, err)
              [] outs[i] = "nogreet" ->
                   ConnectLoopNoReturn(urls, outs, i + 1, CloseWs(made),
                                       [idx |-> i, why |-> "greeting"])
              [] OTHER ->
                   ConnectLoopNoReturn(urls, outs, i + 1, CloseWs(tried),
                                       [idx |-> i, why |-> "handshake"])

\* for url in endpoints_to_try: try: self.ws = create_connection(url, ...);
\* self.ws.recv(); return  except: last_error = e; if self.ws: close; continue
RECURSIVE ConnectLoop(_, _, _, _, _)
ConnectLoop(urls, outs, i, st, err) ==
    IF i > Len(urls) THEN [st |-> st, ok |-> FALSE, err |-> err]
    ELSE LET tried == [st EXCEPT !.log = Append(@, EvAttempt(urls[i]))]
             made  == Connected(tried, urls[i])
         IN CASE outs[i] = "ok" -> [st |-> made, ok |-> TRUE, err |-> err]
              [] outs[i] = "nogreet" ->
                   ConnectLoop(urls, outs, i + 1, CloseWs(made),
                               [idx |-> i, why |-> "greeting"])
              [] OTHER ->
                   \* create_connection raised: self.ws is still what it was
                   ConnectLoop(urls, outs, i + 1, CloseWs(tried),
                               [idx |-> i, why |-> "handshake"])

NoOpened == [doc |-> NoDoc, sock |-> 0]

\* what the last call was given, did and answered, and the state it started in
LastRec(op, app, urls, outs, io, st, res) ==
    [op |-> op, app |-> app, urls |-> urls, outs |-> outs, io |-> io, log |-> st.log,
     res |-> res, prev |-> opened, ws0 |-> ws, socks0 |-> socks]

\* the fields of the client after the method, from the running state
Commit(st) ==
    /\ ws' = st.ws
    /\ socks' = st.socks
    /\ currentAppId' = st.cur
    /\ appHandle' = st.handle

WithinSockets(st) == ~st.over

\* QlikEngineAPI.connect(app_id); tls = "bad": loading the certificate files raises
ApiConnect(app_id, tls, outs) ==
    /\ who = "api"
    /\ LET urls == ApiEndpoints(app_id)
           r == ConnectLoop(urls, outs, 1, ClientState, NoCause)
       IN IF tls = "bad"
          THEN /\ Commit(ClientState)
               /\ last' = LastRec("connect", app_id, urls, <<>>, <<>>, ClientState, Raise(ErrSsl))
          ELSE /\ WithinSockets(r.st)
               /\ Commit(r.st)
               /\ last' = LastRec("connect", app_id, urls, outs, <<>>, r.st,
                                  IF r.ok THEN Ret(PNone) ELSE Raise(ErrConnect(r.err)))
    /\ UNCHANGED <<who, opened>>

\* QlikEngineAPI.disconnect
ApiDisconnect ==
    /\ who = "api"
    /\ LET st == CloseWs(ClientState)
       IN /\ Commit(st)
          /\ last' = LastRec("disconnect", NoDoc, <<>>, <<>>, <<>>, st, Ret(PNone))
    /\ UNCHANGED <<who, opened>>

\* QlikEngineAPI.send_request as its callers see it: without a socket it raises
\* before anything is sent; otherwise the request goes out and the call returns
\* the reply's result or raises (out)
ApiSend(st, m, a, h, out) ==
    IF st.ws = 0
    THEN [st |-> st, r |-> Raise(ErrNotConnected), io |-> <<>>]
    ELSE [st |-> [st EXCEPT !.log = Append(@, EvSend(st.ws, m, a, h))], r |-> out,
          io |-> <<out>>]

\* QlikEngineAPI.get_doc_list: the list, or [] when the call raises or the
\* result holds no list
ApiGetDocListRun(st, out) ==
    LET c == ApiSend(st, "GetDocList", "", -1, out)
    IN [st |-> c.st, io |-> c.io,
        docs |-> IF c.r.k = "return" /\ c.r.val.t = "docs" /\ c.r.val.b
                 THEN c.r.val.docs ELSE <<>>]

\* QlikEngineAPI.get_active_doc: the result, or {} when the call raises
ApiGetActiveDocRun(st, out) ==
    LET c == ApiSend(st, "GetActiveDoc", "", -1, out)
    IN [st |-> c.st, io |-> c.io,
        val |-> IF c.r.k = "return" THEN c.r.val ELSE PDict(FALSE, FALSE, -1)]

\* for doc in doc_list: if <doc is accepted>: return ...: the first index among
\* those the test accepts (0: none)
FirstMatch(accepted) ==
    IF accepted # {} THEN CHOOSE i \in accepted : \A j \in accepted : i <= j ELSE 0

\* {"qReturn": {"qHandle": doc.get("qHandle", -1), "qGenericId": app_id}}
MockResponse(doc) == PDict(TRUE, TRUE, IF doc.hasHandle THEN doc.qHandle ELSE -1)

\* QlikEngineAPI.open_doc (no_data only changes the parameters of the request)
ApiOpenDocRun(st, app_id, o1, o3) ==
    LET c1 == ApiSend(st, "OpenDoc", app_id, -1, o1)
    IN IF c1.r.k = "return" THEN [st |-> c1.st, r |-> c1.r, io |-> c1.io]
       ELSE IF SaysAlreadyOpen(c1.r.err)
       THEN LET g == ApiGetDocListRun(c1.st, o3)
                hit == FirstMatch({i \in 1..Len(g.docs) : g.docs[i].qDocId = app_id})
            IN [st |-> g.st, io |-> c1.io \o g.io,
                r |-> IF hit # 0 THEN Ret(MockResponse(g.docs[hit])) ELSE Raise(c1.r.err)]
       ELSE [st |-> c1.st, r |-> Raise(c1.r.err), io |-> c1.io]

\* QlikEngineAPI.open_doc_safe
ApiOpenDocSafeRun(st, app_id, o1, o2, o3) ==
    LET c1 == ApiSend(st, "OpenDoc", app_id, -1, o1)
    IN IF c1.r.k = "return" THEN [st |-> c1.st, r |-> c1.r, io |-> c1.io]
       ELSE IF SaysAlreadyOpen(c1.r.err)
       THEN LET a == ApiGetActiveDocRun(c1.st, o2)
            IN IF a.val.qReturn
               THEN [st |-> a.st, r |-> Ret(a.val), io |-> c1.io \o a.io]
               ELSE LET g == ApiGetDocListRun(a.st, o3)
                        hit == FirstMatch({i \in 1..Len(g.docs) :
                                              \/ g.docs[i].qDocId = app_id
                                              \/ g.docs[i].qDocName = app_id})
                    IN [st |-> g.st, io |-> c1.io \o a.io \o g.io,
                        r |-> IF hit # 0 THEN Ret(MockResponse(g.docs[hit]))
                              ELSE Raise(c1.r.err)]
       ELSE [st |-> c1.st, r |-> Raise(c1.r.err), io |-> c1.io]

\* history: a call that returned a handle for app_id on the socket in use
OpenedAfter(st, app_id, r) ==
    IF r.k = "return" /\ r.val.qReturn /\ r.val.hasHandle /\ st.ws # 0
    THEN [doc |-> app_id, sock |-> st.ws]
    ELSE opened

ApiOpenDoc(app_id, o1, o3) ==
    /\ who = "api"
    /\ LET x == ApiOpenDocRun(ClientState, app_id, o1, o3)
       IN /\ Commit(x.st)
          /\ last' = LastRec("open_doc", app_id, <<>>, <<>>, x.io, x.st, x.r)
          /\ opened' = OpenedAfter(x.st, app_id, x.r)
    /\ UNCHANGED who

ApiOpenDocSafe(app_id, o1, o2, o3) ==
    /\ who = "api"
    /\ LET x == ApiOpenDocSafeRun(ClientState, app_id, o1, o2, o3)
       IN /\ Commit(x.st)
          /\ last' = LastRec("open_doc_safe", app_id, <<>>, <<>>, x.io, x.st, x.r)
          /\ opened' = OpenedAfter(x.st, app_id, x.r)
    /\ UNCHANGED who

\* what send_request can hand back for CloseDoc: a result whose
\* qReturn.qSuccess reads as true or as false (also when absent), or an exception
CloseOuts == {Ret(PBool(TRUE)), Ret(PBool(FALSE)), Raise(ErrEngine(FALSE)), Raise(ErrTransport)}

\* QlikEngineAPI.close_doc: qSuccess of the result, False when the call raises
ApiCloseDocRun(st, h, out) ==
    LET c == ApiSend(st, "CloseDoc", "", h, out)
    IN [st |-> c.st, io |-> c.io, r |-> Ret(PBool(c.r.k = "return" /\ c.r.val.b))]

ApiCloseDoc(h, out) ==
    /\ who = "api"
    /\ LET x == ApiCloseDocRun(ClientState, h, out)
       IN /\ Commit(x.st)
          /\ last' = LastRec("close_doc", NoDoc, <<>>, <<>>, x.io, x.st, x.r)
    /\ UNCHANGED <<who, opened>>

ApiGetDocList(out) ==
    /\ who = "api"
    /\ LET x == ApiGetDocListRun(ClientState, out)
       IN /\ Commit(x.st)
          /\ last' = LastRec("get_doc_list", NoDoc, <<>>, <<>>, x.io, x.st,
                             Ret(PDocs(TRUE, x.docs)))
    /\ UNCHANGED <<who, opened>>

ApiGetActiveDoc(out) ==
    /\ who = "api"
    /\ LET x == ApiGetActiveDocRun(ClientState, out)
       IN /\ Commit(x.st)
          /\ last' = LastRec("get_active_doc", NoDoc, <<>>, <<>>, x.io, x.st, Ret(x.val))
    /\ UNCHANGED <<who, opened>>

\* QlikEngineTestClient.connect: current_app_id is set before anything is tried;
\* a certificate file that does not load makes it return False
TcConnectRun(st, app_id, tls, outs) ==
    LET st1 == [st EXCEPT !.cur = app_id]
    IN IF tls = "bad" THEN [st |-> st1, ok |-> FALSE, err |-> NoCause]
       ELSE ConnectLoop(TcEndpoints(app_id), outs, 1, st1, NoCause)

\* QlikEngineTestClient.disconnect
TcDisconnectRun(st) == [CloseWs(st) EXCEPT !.handle = -1, !.cur = NoDoc]

\* {"error": "No connection"}, {"error": str(e)}, {"error": "Failed to connect ..."}
TcErrorDict == PResp(FALSE, TRUE, FALSE, FALSE, -1)

\* QlikEngineTestClient.send_request as its callers see it: one request out, one
\* message in (resp), or an error dict
TcSend(st, m, a, h, resp) ==
    IF st.ws = 0
    THEN [st |-> st, val |-> TcErrorDict, io |-> <<>>]
    ELSE [st |-> [st EXCEPT !.log = Append(@, EvSend(st.ws, m, a, h))], val |-> resp,
          io |-> <<Ret(resp)>>]

\* QlikEngineTestClient.open_app
TcOpenAppRun(st, app_id, tls, outs, resp) ==
    LET st1 == IF st.cur # NoDoc /\ st.cur # app_id THEN TcDisconnectRun(st) ELSE st
        must == st1.ws = 0 \/ st1.cur # app_id
        c == TcConnectRun(st1, app_id, tls, outs)
        st2 == IF must THEN c.st ELSE st1
        q == TcSend(st2, "OpenDoc", app_id, -1, resp)
        used == IF must /\ tls # "bad" THEN outs ELSE <<>>
    IN IF must /\ ~c.ok
       THEN [st |-> c.st, r |-> Ret(TcErrorDict), io |-> <<>>, outs |-> used, got |-> FALSE]
       ELSE IF q.val.hasResult /\ q.val.qReturn
       THEN IF q.val.hasHandle
            THEN [st |-> [q.st EXCEPT !.handle = q.val.qHandle], r |-> Ret(q.val),
                  io |-> q.io, outs |-> used, got |-> TRUE]
            ELSE [st |-> q.st, r |-> Raise(ErrKey), io |-> q.io, outs |-> used,
                  got |-> FALSE]
       ELSE [st |-> q.st, r |-> Ret(q.val), io |-> q.io, outs |-> used, got |-> FALSE]

\* QlikEngineTestClient.get_doc_list
TcGetDocListRun(st, tls, outs, resp) ==
    LET st1 == IF st.cur # NoDoc THEN TcDisconnectRun(st) ELSE st
        c == TcConnectRun(st1, NoDoc, tls, outs)
        q == TcSend(c.st, "GetDocList", "", -1, resp)
        used == IF tls # "bad" THEN outs ELSE <<>>
    IN IF ~c.ok THEN [st |-> c.st, r |-> Ret(TcErrorDict), io |-> <<>>, outs |-> used]
       ELSE [st |-> q.st, r |-> Ret(q.val), io |-> q.io, outs |-> used]

TcConnect(app_id, tls, outs) ==
    /\ who = "test"
    /\ LET c == TcConnectRun(ClientState, app_id, tls, outs)
       IN /\ WithinSockets(c.st)
          /\ Commit(c.st)
          /\ last' = LastRec("connect", app_id, TcEndpoints(app_id),
                             IF tls = "bad" THEN <<>> ELSE outs, <<>>, c.st,
                             Ret(PBool(c.ok)))
    /\ UNCHANGED <<who, opened>>

TcDisconnect ==
    /\ who = "test"
    /\ LET st == TcDisconnectRun(ClientState)
       IN /\ Commit(st)
          /\ last' = LastRec("disconnect", NoDoc, <<>>, <<>>, <<>>, st, Ret(PNone))
    /\ UNCHANGED <<who, opened>>

TcOpenApp(app_id, tls, outs, resp) ==
    /\ who = "test"
    /\ LET x == TcOpenAppRun(ClientState, app_id, tls, outs, resp)
       IN /\ WithinSockets(x.st)
          /\ Commit(x.st)
          /\ last' = LastRec("open_app", app_id, TcEndpoints(app_id), x.outs, x.io, x.st, x.r)
          /\ opened' = IF x.got THEN [doc |-> app_id, sock |-> x.st.ws] ELSE opened
    /\ UNCHANGED who

TcGetDocList(tls, outs, resp) ==
    /\ who = "test"
    /\ LET x == TcGetDocListRun(ClientState, tls, outs, resp)
       IN /\ WithinSockets(x.st)
          /\ Commit(x.st)
          /\ last' = LastRec("get_doc_list", NoDoc, TcEndpoints(NoDoc), x.outs, x.io, x.st, x.r)
    /\ UNCHANGED <<who, opened>>

Targets == Docs \cup {NoDoc}
TlsLoads == {"ok", "bad"}
\* an input the run does not consult
Unused == Ret(PNone)
\* replies to GetDocList as the test client passes them on
ListResponses == {PResp(TRUE, FALSE, FALSE, FALSE, -1), TcErrorDict}

SessInit ==
    /\ who \in {"api", "test"}
    /\ ws = 0
    /\ appHandle = -1
    /\ currentAppId = NoDoc
    /\ socks = {}
    /\ opened = NoOpened
    /\ last = [op |-> "init", app |-> NoDoc, urls |-> <<>>, outs |-> <<>>, io |-> <<>>,
               log |-> <<>>, res |-> Ret(PNone), prev |-> NoOpened, ws0 |-> 0, socks0 |-> {}]
    /\ cache = <<>> /\ now = 0 /\ written = <<>> /\ ret = <<>>
    /\ ConcIdle
    /\ RpcIdle
    /\ QueryIdle

\* connecting and disconnecting, with every course the candidates can take
ConnNext ==
    \/ \E a \in Targets, tls \in TlsLoads :
          \E outs \in IF tls = "ok" THEN OutcomeSeqs(Len(ApiEndpoints(a))) ELSE {<<>>} :
              ApiConnect(a, tls, outs) /\ UNCHANGED nonSessVars
    \/ ApiDisconnect /\ UNCHANGED nonSessVars
    \/ \E a \in Targets, tls \in TlsLoads :
          \E outs \in IF tls = "ok" THEN OutcomeSeqs(Len(TcEndpoints(a))) ELSE {<<>>} :
              TcConnect(a, tls, outs) /\ UNCHANGED nonSessVars
    \/ TcDisconnect /\ UNCHANGED nonSessVars
    \/ \E tls \in TlsLoads, resp \in ListResponses :
          \E outs \in IF tls = "ok" THEN OutcomeSeqs(Len(GlobalEndpoints)) ELSE {<<>>} :
              TcGetDocList(tls, outs, resp) /\ UNCHANGED nonSessVars

SpecConnect == SessInit /\ [][ConnNext]_vars

\* opening documents; a connect outside open_app takes one of the plain courses
SessNext ==
    \/ \E a \in Targets, tls \in TlsLoads :
          \E outs \in IF tls = "ok" THEN PlainOutcomeSeqs(Len(ApiEndpoints(a))) ELSE {<<>>} :
              ApiConnect(a, tls, outs) /\ UNCHANGED nonSessVars
    \/ ApiDisconnect /\ UNCHANGED nonSessVars
    \/ \E a \in Docs, o1 \in DictOuts :
          \E o3 \in IF o1.k = "raise" /\ SaysAlreadyOpen(o1.err) THEN DocListOuts ELSE {Unused} :
              ApiOpenDoc(a, o1, o3) /\ UNCHANGED nonSessVars
    \/ \E a \in Docs, o1 \in DictOuts :
          \E o2 \in IF o1.k = "raise" /\ SaysAlreadyOpen(o1.err) THEN DictOuts ELSE {Unused} :
              \E o3 \in IF o2 # Unused /\ ~(o2.k = "return" /\ o2.val.qReturn)
                        THEN DocListOuts ELSE {Unused} :
                  ApiOpenDocSafe(a, o1, o2, o3) /\ UNCHANGED nonSessVars
    \/ \E h \in Handles, out \in CloseOuts : ApiCloseDoc(h, out) /\ UNCHANGED nonSessVars
    \/ \E out \in DocListOuts : ApiGetDocList(out) /\ UNCHANGED nonSessVars
    \/ \E out \in DictOuts : ApiGetActiveDoc(out) /\ UNCHANGED nonSessVars
    \/ \E a \in Targets, tls \in TlsLoads :
          \E outs \in IF tls = "ok" THEN PlainOutcomeSeqs(Len(TcEndpoints(a))) ELSE {<<>>} :
              TcConnect(a, tls, outs) /\ UNCHANGED nonSessVars
    \/ TcDisconnect /\ UNCHANGED nonSessVars
    \/ \E a \in Docs, tls \in TlsLoads, resp \in TcResponses :
          \E outs \in IF tls = "ok" THEN OutcomeSeqs(Len(TcEndpoints(a))) ELSE {<<>>} :
              TcOpenApp(a, tls, outs, resp) /\ UNCHANGED nonSessVars
    \/ \E tls \in TlsLoads, resp \in ListResponses :
          \E outs \in IF tls = "ok" THEN PlainOutcomeSeqs(Len(GlobalEndpoints)) ELSE {<<>>} :
              TcGetDocList(tls, outs, resp) /\ UNCHANGED nonSessVars

SpecSession == SessInit /\ [][SessNext]_vars

(***************************************************************************)
(* The operations of QlikEngineAPI that connect by themselves:             *)
(* get_detailed_app_metadata, get_app_details and get_sheets_with_objects. *)
(***************************************************************************)
\* {"error": str(e), "details": ...} / {"error": "Failed to open app", ...}
HighError == Ret(PResp(FALSE, TRUE, FALSE, FALSE, -1))
\* the metadata, the report, the sheets
HighReport == Ret(PResp(TRUE, FALSE, FALSE, FALSE, -1))

\* how the requests after open_doc end: all answered, or one of them raises
BodyEnds == {"return", "raise"}

\* try: ... the requests after self.connect() ...
\* except Exception as e: return {"error": ...}: c is what connect left, x what
\* open_doc(app_id, no_data=False) did on it
HighBody(c, x, rest) ==
    LET opens == x.r.k = "return" /\ x.r.val.qReturn /\ x.r.val.hasHandle
    IN IF ~c.ok THEN [st |-> c.st, io |-> <<>>, r |-> HighError]
       ELSE [st |-> x.st, io |-> x.io,
             r |-> IF opens /\ rest = "return" THEN HighReport ELSE HighError]

\* one of the three methods; closes: it has finally: self.disconnect()
HighOp(op, closes, app_id, outs, o1, o3, rest) ==
    /\ who = "api"
    /\ \E c \in {ConnectLoop(ApiEndpoints(NoDoc), outs, 1, ClientState, NoCause)} :
          \E x \in {IF c.ok THEN ApiOpenDocRun(c.st, app_id, o1, o3)
                               ELSE [st |-> c.st, r |-> Unused, io |-> <<>>]} :
              \E b \in {HighBody(c, x, rest)} :
                  \E st \in {IF closes THEN CloseWs(b.st) ELSE b.st} :
                      /\ WithinSockets(st)
                      /\ Commit(st)
                      /\ last' = LastRec(op, app_id, ApiEndpoints(NoDoc), outs, b.io, st, b.r)
    /\ UNCHANGED <<who, opened>>

HighOps == {"get_detailed_app_metadata", "get_app_details", "get_sheets_with_objects"}

\* the answers a run consults: OpenDoc only on a socket, the document list
\* only after an already-open error; connect takes one of the plain courses
HighStep(op, closes) ==
    \E a \in Docs, rest \in BodyEnds, outs \in PlainOutcomeSeqs(Len(GlobalEndpoints)) :
        \E o1 \in IF outs[1] = "ok" THEN DictOuts ELSE {Unused} :
            \E o3 \in IF o1.k = "raise" /\ SaysAlreadyOpen(o1.err)
                      THEN DocListOuts ELSE {Unused} :
                HighOp(op, closes, a, outs, o1, o3, rest)

\* finally: self.disconnect()      (engine_api.py 1993-1994)
ApiGetDetailedAppMetadata == HighStep("get_detailed_app_metadata", TRUE)

\* finally: self.disconnect()      (engine_api.py 2158-2159)
ApiGetAppDetails == HighStep("get_app_details", TRUE)

\* no finally, no disconnect
ApiGetSheetsWithObjects == HighStep("get_sheets_with_objects", FALSE)

HighNext ==
    \/ ApiGetDetailedAppMetadata /\ UNCHANGED nonSessVars
    \/ ApiGetAppDetails /\ UNCHANGED nonSessVars
    \/ ApiGetSheetsWithObjects /\ UNCHANGED nonSessVars

SpecHigh == SessInit /\ [][HighNext]_vars

\* C30: when get_detailed_app_metadata, get_app_details or
\* get_sheets_with_objects has returned, the client holds no socket and none
\* of the sockets it opened is open.
C30_LeavesDisconnected ==
    last.op \in HighOps => (ws = 0 /\ socks = {})

(***************************************************************************)
(* send_request, message by message.  A message is described by what the   *)
(* clients test: whether its text parses to a JSON object, which of the     *)
(* keys "result" and "error" that object has at top level, and which of     *)
(* the two words occur anywhere in the text (a key occurs in the text).     *)
(***************************************************************************)
Msg(form, keys, words, id, val) ==
    [form |-> form, keys |-> keys, words |-> words, id |-> id, val |-> val]
NoMsg == Msg("", {}, {}, 0, "")
Payloads == {"p1", "p2"}

\* messages that answer no request: JSON objects without either key, whose
\* payload text may hold the words, and text that is no JSON object
Notifications ==
    {Msg("object", {}, w, 0, "") : w \in {{}, {"result"}, {"error"}}}
        \cup {Msg("other", {}, {"error"}, 0, "")}

\* the engine's answer to request id: a result or an error
Replies(id) ==
    {Msg("object", {"result"}, {"result"}, id, p) : p \in Payloads}
        \cup {Msg("object", {"error"}, {"error"}, id, "e1")}

RpcRes(k, kind, val, msg) == [k |-> k, kind |-> kind, val |-> val, msg |-> msg]
NoRes == RpcRes("none", "", "", NoMsg)
\* id, sent, read, res: the call's request id, whether the request went out,
\* the messages read and the outcome; open0, rid0: socket and counter when the
\* call began; open1, rid1: after its last step up to the send; sends: calls of
\* ws.send; failed: send or recv raised; ids: every id issued so far by the
\* client; re: how many ids it had issued when it was last connected
NoCall == [id |-> 0, sent |-> FALSE, read |-> <<>>, res |-> NoRes,
           open0 |-> FALSE, rid0 |-> 0, open1 |-> FALSE, rid1 |-> 0,
           sends |-> 0, failed |-> FALSE, ids |-> <<>>, re |-> 0]

\* QlikEngineAPI: if "result" in data or "error" in data    (data is the text)
ApiAccepts(m) == "result" \in m.words \/ "error" \in m.words

\* f"Engine API error: {response['error']}"
EngineErrorText(payload) == "Engine API error: " \o payload

\* QlikEngineAPI: json.loads(data); raise on an error key; response.get("result", {})
ApiOutcome(m) ==
    IF m.form # "object" THEN RpcRes("raise", "decode", "", NoMsg)
    ELSE IF "error" \in m.keys THEN RpcRes("raise", "engine", EngineErrorText(m.val), NoMsg)
    ELSE RpcRes("return", "result", IF "result" \in m.keys THEN m.val ELSE "{}", NoMsg)

\* QlikEngineTestClient: the parsed message itself, or {"error": str(e)}
TestErrorDict == RpcRes("return", "errdict", "", NoMsg)
TestOutcome(m) ==
    IF m.form # "object" THEN TestErrorDict ELSE RpcRes("return", "message", m.val, m)

\* a failure turned into an empty result
BrokenSwallowed == RpcRes("return", "result", "{}", NoMsg)

\* the counter handing out the same id again
NextRequestIdFixed(n) == 1

\* self.request_id += 1; return self.request_id
NextRequestId(n) == n + 1

\* what either client makes of recv or send raising
Broken == IF rpcWho = "api" THEN RpcRes("raise", "transport", "", NoMsg) ELSE TestErrorDict

\* the client is handed a connected socket (connect) or gives it up (disconnect)
RpcConnected ==
    /\ rpcPc = "idle" /\ ~rpcOpen
    /\ rpcOpen' = TRUE
    /\ inbox' = <<>> /\ pending' = {}
    /\ call' = [call EXCEPT !.re = Len(call.ids)]
    /\ UNCHANGED <<rpcWho, requestId, rpcPc, produced>>

RpcDisconnected ==
    /\ rpcPc = "idle" /\ rpcOpen
    /\ rpcOpen' = FALSE
    /\ inbox' = <<>> /\ pending' = {}
    /\ UNCHANGED <<rpcWho, requestId, rpcPc, produced, call>>

\* the record of a call that begins now
NewCall == [NoCall EXCEPT !.ids = call.ids, !.re = call.re,
                          !.open0 = rpcOpen, !.rid0 = requestId]

\* send_request up to self.ws.send(...); sendOk: send does not raise
SendRequest(sendOk) ==
    /\ rpcPc = "idle"
    /\ IF ~rpcOpen
       THEN /\ call' = [NewCall EXCEPT !.res =
                           IF rpcWho = "api" THEN RpcRes("raise", "not_connected", "", NoMsg)
                           ELSE TestErrorDict,
                           !.open1 = rpcOpen, !.rid1 = requestId]
            /\ UNCHANGED <<requestId, rpcPc, pending>>
       ELSE /\ requestId < MaxRequests
            /\ requestId' = NextRequestId(requestId)
            /\ IF sendOk
               THEN /\ pending' = pending \cup {requestId'}
                    /\ rpcPc' = "reading"
                    /\ call' = [NewCall EXCEPT !.id = requestId', !.sent = TRUE,
                                               !.open1 = rpcOpen, !.rid1 = requestId',
                                               !.sends = 1,
                                               !.ids = Append(@, requestId')]
               ELSE /\ call' = [NewCall EXCEPT !.id = requestId', !.res = Broken,
                                               !.open1 = rpcOpen, !.rid1 = requestId',
                                               !.sends = 1, !.failed = TRUE,
                                               !.ids = Append(@, requestId')]
                    /\ UNCHANGED <<rpcPc, pending>>
    /\ UNCHANGED <<rpcWho, rpcOpen, inbox, produced>>

\* the engine pushes a notification
EngineNotify(m) ==
    /\ rpcOpen /\ produced < MaxMessages
    /\ inbox' = Append(inbox, m)
    /\ produced' = produced + 1
    /\ UNCHANGED <<rpcWho, rpcOpen, requestId, rpcPc, pending, call>>

\* the engine answers a request it has received
EngineReply(id, m) ==
    /\ rpcOpen /\ produced < MaxMessages /\ id \in pending
    /\ inbox' = Append(inbox, m)
    /\ pending' = pending \ {id}
    /\ produced' = produced + 1
    /\ UNCHANGED <<rpcWho, rpcOpen, requestId, rpcPc, call>>

\* one self.ws.recv() and what follows it
Recv ==
    /\ rpcPc = "reading" /\ inbox # <<>>
    /\ LET m == Head(inbox)
           seen == Append(call.read, m)
       IN /\ inbox' = Tail(inbox)
          /\ IF rpcWho = "api"
             THEN IF ApiAccepts(m)
                  THEN /\ call' = [call EXCEPT !.read = seen, !.res = ApiOutcome(m)]
                       /\ rpcPc' = "idle"
                  ELSE /\ call' = [call EXCEPT !.read = seen]
                       /\ rpcPc' = "reading"
             ELSE /\ call' = [call EXCEPT !.read = seen, !.res = TestOutcome(m)]
                  /\ rpcPc' = "idle"
    /\ UNCHANGED <<rpcWho, rpcOpen, requestId, pending, produced>>

\* self.ws.recv() raises
RecvFails ==
    /\ rpcPc = "reading"
    /\ call' = [call EXCEPT !.res = Broken, !.failed = TRUE]
    /\ rpcPc' = "idle"
    /\ UNCHANGED <<rpcWho, rpcOpen, requestId, inbox, pending, produced>>

RpcInit ==
    /\ rpcWho \in {"api", "test"}
    /\ rpcOpen = FALSE
    /\ requestId = 0
    /\ rpcPc = "idle"
    /\ inbox = <<>>
    /\ pending = {}
    /\ produced = 0
    /\ call = NoCall
    /\ cache = <<>> /\ now = 0 /\ written = <<>> /\ ret = <<>>
    /\ ConcIdle
    /\ SessIdle
    /\ QueryIdle

RpcNext ==
    \/ RpcConnected /\ UNCHANGED nonRpcVars
    \/ RpcDisconnected /\ UNCHANGED nonRpcVars
    \/ \E sendOk \in BOOLEAN : SendRequest(sendOk) /\ UNCHANGED nonRpcVars
    \/ \E m \in Notifications : EngineNotify(m) /\ UNCHANGED nonRpcVars
    \/ \E id \in pending : \E m \in Replies(id) : EngineReply(id, m) /\ UNCHANGED nonRpcVars
    \/ Recv /\ UNCHANGED nonRpcVars
    \/ RecvFails /\ UNCHANGED nonRpcVars

SpecRpc == RpcInit /\ [][RpcNext]_vars

\* a JSON object with a top-level result or error key
IsReply(m) == m.form = "object" /\ m.keys \cap {"result", "error"} # {}

\* C8: when send_request has read messages and hands back what it made of
\* them, the last message read is a JSON object with a top-level result or
\* error key and no message read before it is one.
C8_OnlyRepliesAccepted ==
    (rpcPc = "idle" /\ call.read # <<>> /\ call.res.kind # "transport") =>
        LET n == Len(call.read)
        IN /\ IsReply(call.read[n])
           /\ \A i \in 1..(n - 1) : ~IsReply(call.read[i])

\* C12: the first request id a client issues is 1 and every later id is
\* strictly greater than every id issued before it, so no id is issued twice,
\* also when the client was disconnected and connected again in between.
C12_RequestIdsIncrease ==
    /\ call.ids # <<>> => call.ids[1] = 1
    /\ \A i, j \in 1..Len(call.ids) : i < j => call.ids[i] < call.ids[j]

\* an id issued before a reconnect and another one after it
C12_Witness ==
    /\ call.re >= 1
    /\ Len(call.ids) > call.re

\* C13: when QlikEngineAPI.send_request has accepted a message as the reply,
\* it raises the engine error carrying the message's error payload if the
\* message has an error key, and otherwise returns the message's result payload.
C13_ReplyDecidesOutcome ==
    (rpcWho = "api" /\ rpcPc = "idle" /\ call.read # <<>> /\ ~call.failed /\ call.res # NoRes) =>
        LET m == call.read[Len(call.read)]
        IN IF "error" \in m.keys
           THEN call.res = RpcRes("raise", "engine", EngineErrorText(m.val), NoMsg)
           ELSE /\ call.res.k = "return"
                /\ "result" \in m.keys
                /\ call.res.val = m.val

\* the call has handed back what it made of a message it read
Answered == rpcPc = "idle" /\ call.read # <<>> /\ ~call.failed /\ call.res # NoRes

\* C24: the message a send_request call accepts as the reply carries the id
\* of the request that call sent.
C24_ReplyMatchesRequest ==
    Answered => call.read[Len(call.read)].id = call.id

\* C25: when a send_request call has handed back a reply, it has read
\* exactly one message with a result or error key, and the answer to its
\* request is neither still to come nor waiting unread on the socket.
C25_OneReplyConsumed ==
    Answered =>
        /\ Cardinality({i \in 1..Len(call.read) : IsReply(call.read[i])}) = 1
        /\ call.id \notin pending
        /\ \A i \in 1..Len(inbox) : inbox[i].id # call.id

\* C18: send_request neither opens a socket nor sends twice.  Called without
\* a socket it fails with the connection error, sends nothing, reads nothing
\* and leaves the counter alone; called on a connected client it issues one id
\* and calls send once; when send or recv raises, the call ends there with the
\* failure as its outcome.
C18_OneRequestNoRetry ==
    LET called == call.res # NoRes \/ call.sends > 0
    IN /\ call.open1 = call.open0
       /\ (called /\ ~call.open0) =>
              /\ call.sends = 0 /\ ~call.sent /\ call.read = <<>>
              /\ call.rid1 = call.rid0
              /\ call.res = IF rpcWho = "api"
                            THEN RpcRes("raise", "not_connected", "", NoMsg)
                            ELSE TestErrorDict
       /\ (called /\ call.open0) =>
              /\ call.sends = 1
              /\ call.rid1 = call.rid0 + 1
       /\ call.failed =>
              /\ rpcPc = "idle" /\ call.sends = 1
              /\ call.res = IF rpcWho = "api"
                            THEN RpcRes("raise", "transport", "", NoMsg)
                            ELSE TestErrorDict

\* recv raised after the request went out and a message had been skipped
C18_Witness ==
    /\ rpcWho = "api"
    /\ call.failed /\ call.sent /\ call.read # <<>>
    /\ call.rid1 = 2

(***************************************************************************)
(* Query operations of QlikEngineAPI that build a session object, read its *)
(* layout and (some of them) destroy it.  An operation is one action; what  *)
(* the engine answers to each request is its input.                        *)
(***************************************************************************)
Obj(qId, h) == [qId |-> qId, h |-> h]
NoObj == Obj("", 0)
\* qInfo without a qId: the engine names the object itself
AutoId == "auto"
FieldNames == {"F"}
\* a table name, or "" for none given
TableNames == {"T", ""}

QSent(m, arg, h) == [m |-> m, arg |-> arg, h |-> h]
\* the handle the caller passes as app_handle
AppHandle == 0

QRes(k, warning) == [k |-> k, warning |-> warning]

\* CreateSessionObject: an object is made and its handle returned, the result
\* lacks qReturn/qHandle, or send_request raises
CreateOuts == {"created", "noreturn", "raise"}
\* GetLayout: a layout with the expected key, one without, or send_request raises
LayoutOuts == {"ok", "nokey", "raise"}
\* DestroySessionObject: done, answered without destroying, or send_request raises
DestroyOuts == {"destroyed", "refused", "raise"}

Alive(lv, qId) == qId # AutoId /\ \E o \in lv : o.qId = qId
NewHandle(lv) ==
    CHOOSE h \in 1..MaxObjects :
        (\A o \in lv : o.h # h) /\ \A g \in 1..(h - 1) : \E o \in lv : o.h = g

\* the engine makes an object only under an id that is not in use
CanCreate(lv, qId) == ~Alive(lv, qId) /\ Cardinality(lv) < MaxObjects

Destroyed(lv, qId, d) == IF d = "destroyed" THEN {o \in lv : o.qId # qId} ELSE lv

\* a destroy request naming some other object
DestroyIdOther(qId) == "other"

\* the id DestroySessionObject is given: the f-string of the definition's qId
DestroyId(qId) == qId

\* the destroy failure handed on to the enclosing except
AfterReadEscalates(d) == IF d = "raise" THEN QRes("error", FALSE) ELSE QRes("payload", FALSE)

\* try: DestroySessionObject  except Exception as cleanup_error:
\*     result["cleanup_warning"] = str(cleanup_error);  return result
AfterRead(d) == QRes("payload", d = "raise")

QRun(lv, sent, outs, res, made) ==
    [live |-> lv, sent |-> sent, outs |-> outs, res |-> res, made |-> made]

\* get_field_values, get_field_statistics, get_table_data, create_data_export
\* from CreateSessionObject on
QueryWithCleanupRun(lv, qId, c, l, d) ==
    LET create == QSent("CreateSessionObject", qId, AppHandle)
        obj == Obj(qId, NewHandle(lv))
        lv1 == lv \cup {obj}
        layout == QSent("GetLayout", "", obj.h)
        destroy == QSent("DestroySessionObject", DestroyId(qId), AppHandle)
    IN IF c # "created"
       THEN QRun(lv, <<create>>, <<c>>, QRes("error", FALSE), NoObj)
       ELSE IF l = "raise"
       THEN QRun(lv1, <<create, layout>>, <<c, l>>, QRes("error", FALSE), obj)
       ELSE IF l = "nokey"
       THEN QRun(Destroyed(lv1, DestroyId(qId), d), <<create, layout, destroy>>, <<c, l, d>>,
                 QRes("error", FALSE), obj)
       ELSE QRun(Destroyed(lv1, DestroyId(qId), d), <<create, layout, destroy>>, <<c, l, d>>,
                 AfterRead(d), obj)

\* get_sheets, create_hypercube, _get_master_measures, _get_master_dimensions;
\* failK: what the operation returns when it has no data ("empty": [])
QueryNoCleanupRun(lv, qId, c, l, failK) ==
    LET create == QSent("CreateSessionObject", qId, AppHandle)
        obj == Obj(qId, NewHandle(lv))
        lv1 == lv \cup {obj}
        layout == QSent("GetLayout", "", obj.h)
    IN IF c # "created"
       THEN QRun(lv, <<create>>, <<c>>, QRes(failK, FALSE), NoObj)
       ELSE IF l # "ok"
       THEN QRun(lv1, <<create, layout>>, <<c, l>>, QRes(failK, FALSE), obj)
       ELSE QRun(lv1, <<create, layout>>, <<c, l>>, QRes("payload", FALSE), obj)

\* the run created an object, got an answer to GetLayout and had it destroyed
RanAll(q) ==
    /\ Len(q.outs) >= 3
    /\ q.outs[Len(q.outs) - 2] = "created"
    /\ q.outs[Len(q.outs) - 1] \in {"ok", "nokey"}
    /\ q.outs[Len(q.outs)] = "destroyed"

\* again: the operation before this one was the same operation with the same
\* argument and ran all three requests
QLast(op, arg, x) ==
    [op |-> op, arg |-> arg, sent |-> x.sent, outs |-> x.outs, res |-> x.res,
     made |-> x.made, live0 |-> live,
     again |-> qlast.op = op /\ qlast.arg = arg /\ RanAll(qlast)]

QCommit(op, arg, x) ==
    /\ live' = x.live
    /\ qlast' = QLast(op, arg, x)

\* the engine's answer to CreateSessionObject for qId in the current state
CreateAnswers(qId) == IF CanCreate(live, qId) THEN CreateOuts ELSE CreateOuts \ {"created"}

GetFieldValues(f, c, l, d) ==
    /\ c \in CreateAnswers("field-values-" \o f)
    /\ QCommit("get_field_values", f, QueryWithCleanupRun(live, "field-values-" \o f, c, l, d))

GetFieldStatistics(f, c, l, d) ==
    /\ c \in CreateAnswers("field-stats-" \o f)
    /\ QCommit("get_field_statistics", f,
               QueryWithCleanupRun(live, "field-stats-" \o f, c, l, d))

\* get_fields first; pre = "stop": it reports an error or no field of the table
StoppedEarly == QRun(live, <<QSent("get_fields", "", AppHandle)>>, <<"stop">>,
                     QRes("error", FALSE), NoObj)
WithFields(x) == [x EXCEPT !.sent = <<QSent("get_fields", "", AppHandle)>> \o @,
                           !.outs = <<"fields">> \o @]

GetTableData(t, pre, c, l, d) ==
    /\ c \in CreateAnswers("table-data-" \o t)
    /\ QCommit("get_table_data", t,
               IF t = "" \/ pre = "stop" THEN StoppedEarly
               ELSE WithFields(QueryWithCleanupRun(live, "table-data-" \o t, c, l, d)))

\* given: a list of fields was passed
CreateDataExport(t, given, pre, c, l, d) ==
    LET qId == "data-export-" \o (IF t # "" THEN t ELSE "custom")
        x == QueryWithCleanupRun(live, qId, c, l, d)
    IN /\ c \in CreateAnswers(qId)
       /\ QCommit("create_data_export", t,
                  IF given THEN x
                  ELSE IF t = "" THEN QRun(live, <<>>, <<>>, QRes("error", FALSE), NoObj)
                  ELSE IF pre = "stop" THEN StoppedEarly
                  ELSE WithFields(x))

GetSheets(c, l) ==
    /\ c \in CreateAnswers(AutoId)
    /\ QCommit("get_sheets", "", QueryNoCleanupRun(live, AutoId, c, l, "empty"))

\* one dimension and one measure: qId "hypercube-1d-1m"
CreateHypercube(c, l) ==
    /\ c \in CreateAnswers("hypercube-1d-1m")
    /\ QCommit("create_hypercube", "",
               QueryNoCleanupRun(live, "hypercube-1d-1m", c, l, "error"))

GetMasterMeasures(c, l) ==
    /\ c \in CreateAnswers(AutoId)
    /\ QCommit("_get_master_measures", "", QueryNoCleanupRun(live, AutoId, c, l, "empty"))

GetMasterDimensions(c, l) ==
    /\ c \in CreateAnswers(AutoId)
    /\ QCommit("_get_master_dimensions", "", QueryNoCleanupRun(live, AutoId, c, l, "empty"))

\* disconnect: the session ends and the engine drops its session objects
EndSession ==
    /\ live' = {}
    /\ qlast' = [op |-> "disconnect", arg |-> "", sent |-> <<>>, outs |-> <<>>,
                 res |-> QRes("none", FALSE), made |-> NoObj, live0 |-> live,
                 again |-> FALSE]

QueryInit ==
    /\ live = {}
    /\ qlast = [op |-> "init", arg |-> "", sent |-> <<>>, outs |-> <<>>,
                res |-> QRes("none", FALSE), made |-> NoObj, live0 |-> {}, again |-> FALSE]
    /\ cache = <<>> /\ now = 0 /\ written = <<>> /\ ret = <<>>
    /\ ConcIdle
    /\ SessIdle
    /\ RpcIdle

\* the answers a run consults: GetLayout only after "created", and
\* DestroySessionObject only after GetLayout returned
LayoutAnswers(c) == IF c = "created" THEN LayoutOuts ELSE {"none"}
DestroyAnswers(l) == IF l \in {"ok", "nokey"} THEN DestroyOuts ELSE {"none"}

QueryNext ==
    \/ \E f \in FieldNames, c \in CreateOuts :
          \E l \in LayoutAnswers(c) : \E d \in DestroyAnswers(l) :
              GetFieldValues(f, c, l, d) /\ UNCHANGED nonQueryVars
    \/ \E f \in FieldNames, c \in CreateOuts :
          \E l \in LayoutAnswers(c) : \E d \in DestroyAnswers(l) :
              GetFieldStatistics(f, c, l, d) /\ UNCHANGED nonQueryVars
    \/ \E t \in TableNames, pre \in {"fields", "stop"} :
          \E c \in IF t = "" \/ pre = "stop" THEN {"raise"} ELSE CreateOuts :
              \E l \in LayoutAnswers(c) : \E d \in DestroyAnswers(l) :
                  GetTableData(t, pre, c, l, d) /\ UNCHANGED nonQueryVars
    \/ \E t \in TableNames, given \in BOOLEAN, pre \in {"fields", "stop"} :
          \E c \in IF ~given /\ (t = "" \/ pre = "stop") THEN {"raise"} ELSE CreateOuts :
              \E l \in LayoutAnswers(c) : \E d \in DestroyAnswers(l) :
                  CreateDataExport(t, given, pre, c, l, d) /\ UNCHANGED nonQueryVars
    \/ \E c \in CreateOuts : \E l \in LayoutAnswers(c) :
          GetSheets(c, l) /\ UNCHANGED nonQueryVars
    \/ \E c \in CreateOuts : \E l \in LayoutAnswers(c) :
          CreateHypercube(c, l) /\ UNCHANGED nonQueryVars
    \/ \E c \in CreateOuts : \E l \in LayoutAnswers(c) :
          GetMasterMeasures(c, l) /\ UNCHANGED nonQueryVars
    \/ \E c \in CreateOuts : \E l \in LayoutAnswers(c) :
          GetMasterDimensions(c, l) /\ UNCHANGED nonQueryVars
    \/ EndSession /\ UNCHANGED nonQueryVars

SpecQuery == QueryInit /\ [][QueryNext]_vars

\* C3: an operation that created a session object has sent a
\* DestroySessionObject for it after the CreateSessionObject, and the object
\* is alive when the operation returns only if that request failed.
C3_CreatedObjectsDestroyed ==
    qlast.made # NoObj =>
        /\ \E i, j \in 1..Len(qlast.sent) :
              /\ i < j
              /\ qlast.sent[i].m = "CreateSessionObject"
              /\ qlast.sent[j] = QSent("DestroySessionObject", qlast.made.qId, AppHandle)
        /\ qlast.made \in live => qlast.outs[Len(qlast.outs)] \in {"refused", "raise"}

\* C11: when an operation is run again right after a run of it, with the same
\* argument, that created its object, got its layout answered and had it
\* destroyed, the id it asks the engine to create is held by no live object.
C11_RepeatFindsIdFree ==
    (qlast.again /\ \E i \in 1..Len(qlast.sent) : qlast.sent[i].m = "CreateSessionObject") =>
        \A i \in 1..Len(qlast.sent) :
            qlast.sent[i].m = "CreateSessionObject" => ~Alive(qlast.live0, qlast.sent[i].arg)

\* get_field_values run twice in a row, both runs complete
C11_Witness ==
    /\ qlast.again
    /\ qlast.op = "get_field_values"
    /\ qlast.outs = <<"created", "ok", "destroyed">>
    /\ qlast.made # NoObj /\ qlast.made \notin live

\* C10: when the object was created and its layout read, the operations that
\* destroy it return their payload whatever DestroySessionObject does, and
\* carry a cleanup_warning exactly when that request raised.
C10_DestroyFailureIsWarning ==
    ( /\ Len(qlast.outs) >= 3
      /\ qlast.outs[Len(qlast.outs) - 2] = "created"
      /\ qlast.outs[Len(qlast.outs) - 1] = "ok" ) =>
        /\ qlast.res.k = "payload"
        /\ qlast.res.warning <=> qlast.outs[Len(qlast.outs)] = "raise"

\* get_field_values read its layout and DestroySessionObject raised
C10_Witness ==
    /\ qlast.op = "get_field_values"
    /\ qlast.outs = <<"created", "ok", "raise">>
    /\ qlast.res = QRes("payload", TRUE)
    /\ qlast.made \in live

(***************************************************************************)
(* Properties of the connector and of opening documents.                   *)
(***************************************************************************)
Attempts(log) == SelectSeq(log, LAMBDA e : e.e = "attempt")
Opens(log)    == SelectSeq(log, LAMBDA e : e.e = "open")
Sends(log)    == SelectSeq(log, LAMBDA e : e.e = "send")
SentMethods(log) == [i \in 1..Len(Sends(log)) |-> Sends(log)[i].m]

\* index of the first candidate that answers (0: none does)
FirstOk(outs) ==
    IF \E i \in 1..Len(outs) : outs[i] = "ok"
    THEN CHOOSE i \in 1..Len(outs) : outs[i] = "ok" /\ \A j \in 1..(i - 1) : outs[j] # "ok"
    ELSE 0

\* the last call ran the candidate loop
RanLoop == last.outs # <<>>

\* C5: the candidates are attempted in list order, each at most once, up to
\* and including the first one whose handshake and greeting succeed and no
\* further; that candidate's socket is the one the client keeps.
C5_InOrderUntilFirstSuccess ==
    RanLoop =>
        LET att == Attempts(last.log)
            k == FirstOk(last.outs)
            n == IF k = 0 THEN Len(last.urls) ELSE k
            op == Opens(last.log)
        IN /\ Len(att) = n
           /\ \A i \in 1..n : att[i].url = last.urls[i]
           /\ k # 0 => /\ op # <<>>
                       /\ op[Len(op)] = EvOpen(last.urls[k], ws)
                       /\ ws \in socks

\* only the last of four candidates answers: four attempts, its socket kept
C5_Witness ==
    /\ RanLoop /\ last.op = "connect"
    /\ Len(last.urls) = 4 /\ FirstOk(last.outs) = 4
    /\ Len(Attempts(last.log)) = 4
    /\ ws # 0

\* C6: a socket opened for a candidate that then fails is closed before
\* anything else happens; when every candidate fails the client holds no
\* socket and QlikEngineAPI.connect raises a connection error that carries
\* the failure of the last candidate (the test client answers False).
C6_FailedCandidateClosed ==
    RanLoop =>
        LET k == FirstOk(last.outs)
            n == Len(last.urls)
            failed(e) == ~(k # 0 /\ e.url = last.urls[k])
        IN /\ \A p \in 1..Len(last.log) :
                 (last.log[p].e = "open" /\ failed(last.log[p])) =>
                     /\ p < Len(last.log)
                     /\ last.log[p + 1] = EvClose(last.log[p].s)
           /\ k = 0 =>
                 /\ ws = 0
                 /\ (who = "api" /\ last.op = "connect") =>
                       last.res = Raise(ErrConnect(
                           [idx |-> n,
                            why |-> IF last.outs[n] = "nogreet" THEN "greeting"
                                    ELSE "handshake"]))
                 /\ (who = "test" /\ last.op = "connect") => last.res = Ret(PBool(FALSE))

\* every candidate of QlikEngineAPI.connect fails, the last one at its greeting
C6_Witness ==
    /\ RanLoop /\ who = "api" /\ last.op = "connect"
    /\ FirstOk(last.outs) = 0
    /\ last.outs[1] = "refused" /\ last.outs[Len(last.outs)] = "nogreet"
    /\ last.res.k = "raise" /\ last.res.err.cause.idx = Len(last.urls)
    /\ ws = 0

\* C7: connect for a document id builds exactly the secured and then the
\* unsecured endpoint of that document; connect for the global target builds
\* the four global candidates, and only candidates of the list are attempted.
C7_CandidatesFollowTarget ==
    last.op = "connect" =>
        /\ last.urls = IF last.app # NoDoc THEN DocEndpoints(last.app) ELSE GlobalEndpoints
        /\ \A i \in 1..Len(Attempts(last.log)) :
              \E j \in 1..Len(last.urls) : Attempts(last.log)[i].url = last.urls[j]

\* C4: when a document was opened on the socket the client holds and a
\* different document is opened next, that socket is closed before any
\* connection attempt or request of the second call, and the test client's
\* app_handle afterwards is -1 or the handle the second OpenDoc returned.
C4_OldSessionTornDown ==
    ( /\ last.op \in {"open_doc", "open_doc_safe", "open_app"}
      /\ last.prev.doc \notin {NoDoc, last.app}
      /\ last.prev.sock # 0 /\ last.prev.sock = last.ws0 ) =>
        /\ \E p \in 1..Len(last.log) :
              /\ last.log[p] = EvClose(last.prev.sock)
              /\ \A q \in 1..(p - 1) : last.log[q].e \notin {"attempt", "send"}
        /\ who = "test" =>
              \/ appHandle = -1
              \/ /\ last.res.k = "return" /\ last.res.val.qReturn /\ last.res.val.hasHandle
                 /\ appHandle = last.res.val.qHandle

\* C9: after an OpenDoc error saying "already open" the recovery is the
\* active-document call, then (if that gave no handle) the document list
\* scanned for the id, and the original error otherwise; after any other
\* outcome of OpenDoc nothing more is sent and an error propagates as it is.
C9_RecoveryOrder ==
    (last.op \in {"open_doc", "open_doc_safe"} /\ last.io # <<>>) =>
        LET o1 == last.io[1]
            sent == SentMethods(last.log)
            act == IF Len(last.io) >= 2 THEN last.io[2] ELSE Unused
            lst == IF Len(last.io) >= 3 THEN last.io[3] ELSE Unused
            actHasHandle == act.k = "return" /\ act.val.qReturn /\ act.val.hasHandle
            docs == IF lst.k = "return" /\ lst.val.t = "docs" /\ lst.val.b
                    THEN lst.val.docs ELSE <<>>
            hits == {i \in 1..Len(docs) : docs[i].qDocId = last.app /\ docs[i].hasHandle}
        IN IF o1.k = "raise" /\ SaysAlreadyOpen(o1.err)
           THEN /\ Len(sent) >= 2
                /\ sent[2] = "GetActiveDoc"
                /\ IF actHasHandle
                   THEN sent = <<"OpenDoc", "GetActiveDoc">> /\ last.res = Ret(act.val)
                   ELSE /\ sent = <<"OpenDoc", "GetActiveDoc", "GetDocList">>
                        /\ IF hits # {}
                           THEN /\ last.res.k = "return"
                                /\ \E i \in hits : last.res.val.qHandle = docs[i].qHandle
                           ELSE last.res = Raise(o1.err)
           ELSE sent = <<"OpenDoc">> /\ (o1.k = "raise" => last.res = Raise(o1.err))

\* the call sent nothing for want of a socket, or a request of it raised
Failed(l) == l.io = <<>> \/ \E i \in 1..Len(l.io) : l.io[i].k = "raise"

\* C14: close document sends CloseDoc with the handle it was given and then
\* disconnects: whatever CloseDoc answered, the client afterwards holds no
\* socket, its handle is -1 and it is bound to no document.
C14_CloseDocThenIdle ==
    last.op = "close_doc" =>
        /\ ws = 0 /\ socks = {}
        /\ appHandle = -1 /\ currentAppId = NoDoc
        /\ last.ws0 # 0 =>
              \E i, j \in 1..Len(last.log) :
                  /\ i < j
                  /\ last.log[i].e = "send" /\ last.log[i].m = "CloseDoc"
                  /\ last.log[j] = EvClose(last.ws0)

\* C17: GetDocList, CloseDoc and GetActiveDoc do not swallow an error: when
\* the request could not be sent or raised, the operation raises or answers
\* with something a successful call cannot answer.
C17_FailuresVisible ==
    (last.op \in {"get_doc_list", "get_active_doc", "close_doc"} /\ who = "api" /\ Failed(last)) =>
        \/ last.res.k = "raise"
        \/ CASE last.op = "get_doc_list" -> last.res \notin {Ret(PDocs(TRUE, d)) : d \in DocLists}
             [] last.op = "get_active_doc" -> last.res \notin {o \in DictOuts : o.k = "return"}
             [] OTHER -> last.res \notin {o \in CloseOuts : o.k = "return"}

\* C15: the client holds at most one open socket: every socket it opened and
\* has not closed is the one it refers to, and a call that starts with a socket
\* closes that socket before it opens another.
C15_OneSocket ==
    /\ socks \subseteq {ws}
    /\ ws # 0 => ws \in socks
    /\ last.ws0 # 0 =>
          \A p \in 1..Len(last.log) :
              last.log[p].e = "open" =>
                  \E q \in 1..(p - 1) : last.log[q] = EvClose(last.ws0)

\* C16: when open_doc or open_doc_safe returns a result with a handle, the
\* handle is not -1.
C16_HandleIsReal ==
    ( /\ last.op \in {"open_doc", "open_doc_safe"}
      /\ last.res.k = "return"
      /\ last.res.val.qReturn /\ last.res.val.hasHandle ) =>
        last.res.val.qHandle # -1

\* C19: after disconnect the client holds no socket (the one it held is
\* closed), its handle is -1 and it is bound to no document; disconnect
\* without a socket closes nothing; and a handle other than -1 belongs to
\* the session the client is in: there is a socket and it is the one the
\* handle was returned on.
C19_HandleWithinSession ==
    /\ last.op = "disconnect" =>
          /\ ws = 0 /\ last.ws0 \notin socks
          /\ appHandle = -1 /\ currentAppId = NoDoc
          /\ last.ws0 = 0 => (last.log = <<>> /\ socks = last.socks0)
    /\ appHandle # -1 => (ws # 0 /\ opened.sock = ws)

\* C29: in the test client a bound document id implies an open socket:
\* whenever current_app_id is set, ws is set too.
C29_BoundImpliesSocket ==
    (who = "test" /\ currentAppId # NoDoc) => ws # 0

=============================================================================
